---- MODULE Spec2Model ----
(***************************************************************************)
(* Dots-and-boxes session engine of server/socket.js: the in-memory        *)
(* registry activeGames, the pure move processor, and the three socket     *)
(* handlers createGame / joinGame / makeMove together with the rows of the *)
(* persistence layer (prisma/schema.prisma) they read and write.           *)
(*                                                                         *)
(* makeMove is a synchronous handler: one action.  createGame and joinGame *)
(* are async: every await is a point where other handlers may run, so each *)
(* is a task that advances one database operation at a time.               *)
(***************************************************************************)
EXTENDS Integers, Sequences, FiniteSets, Bags, TLC

VARIABLES
    activeGames,    \* code -> GameState, the registry (a partial map)
    dbUsers,        \* ids of the User rows
    dbGames,        \* code -> Game row with its GamePlayer rows, in creation order
    pendingWrites,  \* prisma.game.update promises of finished games, not yet settled
    tasks,          \* async handlers in flight: a bag of their program points and locals
    emitted,        \* the socket.io events emitted by the last step
    moved,          \* what processMove returned in the last step, if it ran
    cfg             \* the clients' input ranges, fixed for a behaviour

vars == <<activeGames, dbUsers, dbGames, pendingWrites, tasks, emitted, moved, cfg>>

Null == "null"          \* JS null (line.playerId, box.owner, winnerId)
NoCode == "-"           \* a task local not yet assigned

\* ---------------------------------------------------------------- bounds
MaxTasks == 2           \* async handlers in flight at once
Window == 1             \* how far ahead of their script the clients of a large board play

\* ---------------------------------------------------------------- JS numbers
\* A score is a JS number: an integer or NaN (undefined + n).
Num(n) == [nan |-> FALSE, n |-> n]
NaN == [nan |-> TRUE, n |-> 0]
\* a + b where a is a score slot that may be missing (undefined) and b an integer
JsAdd(a, b) == IF a.nan THEN NaN ELSE Num(a.n + b)
JsGt(a, b) == ~a.nan /\ ~b.nan /\ a.n > b.n
JsStrictEq(a, b) == ~a.nan /\ ~b.nan /\ a.n = b.n

\* ---------------------------------------------------------------- grid
\* lineId `${r1}-${c1}_${r2}-${c2}` is <<r1, c1, r2, c2>>, boxId `${r}-${c}` is <<r, c>>
LineId(r1, c1, r2, c2) == <<r1, c1, r2, c2>>
BoxId(r, c) == <<r, c>>

\* a horizontal line also from the last column
HorizontalLinesToEdge(gridSize) ==
    {LineId(row, col, row, col + 1) : row \in 0..(gridSize - 1), col \in 0..(gridSize - 1)}

HorizontalLines(gridSize) ==
    {LineId(row, col, row, col + 1) : row \in 0..(gridSize - 1), col \in 0..(gridSize - 2)}
VerticalLines(gridSize) ==
    {LineId(row, col, row + 1, col) : row \in 0..(gridSize - 2), col \in 0..(gridSize - 1)}
AllLines(gridSize) == HorizontalLines(gridSize) \cup VerticalLines(gridSize)
AllBoxes(gridSize) ==
    {BoxId(row, col) : row \in 0..(gridSize - 2), col \in 0..(gridSize - 2)}

\* a GamePlayer row as it sits in gameState.players
Player(userId) == [userId |-> userId, score |-> 0]

RECURSIVE ScoresOf(_)
\* players.reduce((acc, player) => { acc[player.userId] = 0 }, {}): the keys in
\* insertion order
ScoresOf(players) ==
    IF players = <<>> THEN <<>>
    ELSE LET rest == ScoresOf(SubSeq(players, 1, Len(players) - 1))
             p == players[Len(players)]
         IN  IF \E i \in 1..Len(rest) : rest[i].userId = p.userId
             THEN rest
             ELSE Append(rest, [userId |-> p.userId, score |-> Num(0)])

initializeGameState(gridSize, players) ==
    [gridSize |-> gridSize,
     players |-> players,
     lines |-> [l \in AllLines(gridSize) |-> [drawn |-> FALSE, playerId |-> Null]],
     boxes |-> [b \in AllBoxes(gridSize) |-> [owner |-> Null]],
     currentPlayerIndex |-> 0,
     scores |-> ScoresOf(players)]

\* ---------------------------------------------------------------- move processor
\* lines[id]?.drawn
LineDrawn(gameState, id) == id \in DOMAIN gameState.lines /\ gameState.lines[id].drawn

\* the left side is not looked at
FourSidesDrawnButLeft(gameState, boxId) ==
    LET row == boxId[1]
        col == boxId[2]
    IN  /\ LineDrawn(gameState, LineId(row, col, row, col + 1))
        /\ LineDrawn(gameState, LineId(row, col + 1, row + 1, col + 1))
        /\ LineDrawn(gameState, LineId(row + 1, col, row + 1, col + 1))

FourSidesDrawn(gameState, boxId) ==
    LET row == boxId[1]
        col == boxId[2]
        topLine == LineId(row, col, row, col + 1)
        rightLine == LineId(row, col + 1, row + 1, col + 1)
        bottomLine == LineId(row + 1, col, row + 1, col + 1)
        leftLine == LineId(row, col, row + 1, col)
    IN  /\ LineDrawn(gameState, topLine)
        /\ LineDrawn(gameState, rightLine)
        /\ LineDrawn(gameState, bottomLine)
        /\ LineDrawn(gameState, leftLine)

\* returns the flag and the game state with box.owner set
checkBoxCompletion(gameState, boxId, playerId) ==
    IF gameState.boxes[boxId].owner # Null
    THEN [completed |-> FALSE, gameState |-> gameState]
    ELSE IF FourSidesDrawn(gameState, boxId)
         THEN [completed |-> TRUE,
               gameState |-> [gameState EXCEPT !.boxes[boxId].owner = playerId]]
         ELSE [completed |-> FALSE, gameState |-> gameState]

\* the boxes processMove looks at for a drawn line, in the order it looks
BoxesToCheck(gameState, lineId) ==
    LET row1 == lineId[1]
        col1 == lineId[2]
        row2 == lineId[3]
        col2 == lineId[4]
    IN  IF row1 = row2
        THEN (IF row1 > 0 THEN <<BoxId(row1 - 1, col1)>> ELSE <<>>)
             \o (IF row1 < gameState.gridSize - 1 THEN <<BoxId(row1, col1)>> ELSE <<>>)
        ELSE IF col1 = col2
        THEN (IF col1 > 0 THEN <<BoxId(row1, col1 - 1)>> ELSE <<>>)
             \o (IF col1 < gameState.gridSize - 1 THEN <<BoxId(row1, col1)>> ELSE <<>>)
        ELSE <<>>

RECURSIVE CheckBoxes(_, _, _, _)
CheckBoxes(gameState, boxIds, playerId, boxesCompleted) ==
    IF boxIds = <<>>
    THEN [boxesCompleted |-> boxesCompleted, gameState |-> gameState]
    ELSE LET r == checkBoxCompletion(gameState, Head(boxIds), playerId)
         IN  CheckBoxes(r.gameState, Tail(boxIds), playerId,
                        boxesCompleted + (IF r.completed THEN 1 ELSE 0))

ScoreIndex(scores, userId) ==
    IF \E i \in 1..Len(scores) : scores[i].userId = userId
    THEN CHOOSE i \in 1..Len(scores) : scores[i].userId = userId
    ELSE 0

\* gameState.scores[playerId] += boxesCompleted
AddScore(scores, playerId, boxesCompleted) ==
    LET i == ScoreIndex(scores, playerId)
    IN  IF i = 0
        THEN Append(scores, [userId |-> playerId, score |-> NaN])
        ELSE [scores EXCEPT ![i].score = JsAdd(@, boxesCompleted)]

\* the line marked drawn by the player
DrawLine(gameState, lineId, playerId) ==
    [gameState EXCEPT !.lines[lineId] = [drawn |-> TRUE, playerId |-> playerId]]

\* the turn passes on also after a completed box
ScoreAndTurnPassing(gameState, currentPlayerIndex, playerId, boxesCompleted) ==
    [(IF boxesCompleted > 0
      THEN [gameState EXCEPT !.scores = AddScore(@, playerId, boxesCompleted)]
      ELSE gameState)
     EXCEPT !.currentPlayerIndex = (currentPlayerIndex + 1) % Len(gameState.players)]

\* the turn index is not wrapped at the end of players
ScoreAndTurnUnwrapped(gameState, currentPlayerIndex, playerId, boxesCompleted) ==
    IF boxesCompleted > 0
    THEN [gameState EXCEPT !.scores = AddScore(@, playerId, boxesCompleted)]
    ELSE [gameState EXCEPT !.currentPlayerIndex = currentPlayerIndex + 1]

\* the score and turn update at the end of processMove
ScoreAndTurn(gameState, currentPlayerIndex, playerId, boxesCompleted) ==
    IF boxesCompleted > 0
    THEN [gameState EXCEPT !.scores = AddScore(@, playerId, boxesCompleted)]
    ELSE [gameState EXCEPT
            !.currentPlayerIndex = (currentPlayerIndex + 1) % Len(gameState.players)]

\* the line is marked before the turn is checked
processMoveMarkFirst(gameState, lineId, playerId) ==
    IF lineId \notin DOMAIN gameState.lines \/ gameState.lines[lineId].drawn
    THEN [valid |-> FALSE, message |-> "Invalid move", boxesCompleted |-> 0,
          gameState |-> gameState]
    ELSE IF gameState.players[gameState.currentPlayerIndex + 1].userId # playerId
    THEN [valid |-> FALSE, message |-> "Not your turn", boxesCompleted |-> 0,
          gameState |-> DrawLine(gameState, lineId, playerId)]
    ELSE LET drawn == DrawLine(gameState, lineId, playerId)
             checked == CheckBoxes(drawn, BoxesToCheck(drawn, lineId), playerId, 0)
         IN  [valid |-> TRUE, message |-> "",
              boxesCompleted |-> checked.boxesCompleted,
              gameState |-> ScoreAndTurn(checked.gameState, gameState.currentPlayerIndex,
                                         playerId, checked.boxesCompleted)]

processMove(gameState, lineId, playerId) ==
    IF lineId \notin DOMAIN gameState.lines \/ gameState.lines[lineId].drawn
    THEN [valid |-> FALSE, message |-> "Invalid move", boxesCompleted |-> 0,
          gameState |-> gameState]
    ELSE IF gameState.players[gameState.currentPlayerIndex + 1].userId # playerId
    THEN [valid |-> FALSE, message |-> "Not your turn", boxesCompleted |-> 0,
          gameState |-> gameState]
    ELSE LET drawn == DrawLine(gameState, lineId, playerId)
             checked == CheckBoxes(drawn, BoxesToCheck(drawn, lineId), playerId, 0)
         IN  [valid |-> TRUE, message |-> "",
              boxesCompleted |-> checked.boxesCompleted,
              gameState |-> ScoreAndTurn(checked.gameState, gameState.currentPlayerIndex,
                                         playerId, checked.boxesCompleted)]

\* some instead of every
checkGameEndSome(gameState) ==
    \E l \in DOMAIN gameState.lines : gameState.lines[l].drawn

checkGameEnd(gameState) ==
    \A l \in DOMAIN gameState.lines : gameState.lines[l].drawn

\* the winner loop over Object.entries(gameState.scores)
RECURSIVE WinnerLoop(_, _)
WinnerLoop(scores, acc) ==
    IF scores = <<>> THEN acc
    ELSE LET e == Head(scores)
         IN  WinnerLoop(Tail(scores),
                 IF JsGt(e.score, acc.maxScore)
                 THEN [winnerId |-> e.userId, maxScore |-> e.score, isTie |-> FALSE]
                 ELSE IF JsStrictEq(e.score, acc.maxScore)
                 THEN [acc EXCEPT !.isTie = TRUE]
                 ELSE acc)

Winner(scores) ==
    LET r == WinnerLoop(scores, [winnerId |-> Null, maxScore |-> Num(-1), isTie |-> FALSE])
    IN  [winnerId |-> IF r.isTie THEN Null ELSE r.winnerId, isTie |-> r.isTie]

\* ---------------------------------------------------------------- registry and rows
Live(code) == code \in DOMAIN activeGames

Put(map, key, value) ==
    [k \in (DOMAIN map) \cup {key} |-> IF k = key THEN value ELSE map[k]]
Delete(map, key) == [k \in (DOMAIN map) \ {key} |-> map[k]]

Range(seq) == {seq[i] : i \in 1..Len(seq)}
Contains(seq, x) == \E i \in 1..Len(seq) : seq[i] = x
UserIds(players) == [i \in 1..Len(players) |-> players[i].userId]
Rows(userIds) == [i \in 1..Len(userIds) |-> Player(userIds[i])]

\* the locals of a handler that has just been called
NewTask ==
    [pc |-> "start", userId |-> Null, code |-> NoCode, gridSize |-> 0,
     status |-> "", players |-> <<>>]

InFlight == DOMAIN tasks
Started(task) == tasks (+) SetToBag({task})
Finished(t) == tasks (-) SetToBag({t})
Resumed(t, task) == Finished(t) (+) SetToBag({task})

\* ---------------------------------------------------------------- events
ToSocket(type, message) == [type |-> type, to |-> "socket", message |-> message]
ErrorEvent(message) == ToSocket("error", message)

\* the catch block of createGame / joinGame
Fail(t, message) ==
    /\ tasks' = Finished(t)
    /\ emitted' = <<ErrorEvent(message)>>

NoMove == <<>>

\* ---------------------------------------------------------------- createGame
\* the handler starts and prisma.user.findUnique answers
CreateGame(gridSize, userId) ==
    /\ BagCardinality(tasks) < cfg.handlers
    /\ tasks' = Started(
            [NewTask EXCEPT !.pc = IF userId \in dbUsers THEN "c_findCode" ELSE "c_createUser",
                            !.userId = userId, !.gridSize = gridSize])
    /\ emitted' = <<>>
    /\ moved' = NoMove
    /\ UNCHANGED <<activeGames, dbUsers, dbGames, pendingWrites, cfg>>

\* prisma.user.create; User.id is @unique
CreateGameUser(t) ==
    /\ t.pc = "c_createUser"
    /\ IF t.userId \in dbUsers
       THEN /\ Fail(t, "Failed to create game")
            /\ UNCHANGED dbUsers
       ELSE /\ dbUsers' = dbUsers \cup {t.userId}
            /\ tasks' = Resumed(t, [t EXCEPT !.pc = "c_findCode"])
            /\ emitted' = <<>>
    /\ moved' = NoMove
    /\ UNCHANGED <<activeGames, dbGames, pendingWrites, cfg>>

\* one round of the do-while: generateGameCode and prisma.game.findUnique
CreateGameCode(t, code) ==
    /\ t.pc = "c_findCode"
    /\ tasks' = IF code \in DOMAIN dbGames THEN tasks
                ELSE Resumed(t, [t EXCEPT !.pc = "c_createGame", !.code = code])
    /\ emitted' = <<>>
    /\ moved' = NoMove
    /\ UNCHANGED <<activeGames, dbUsers, dbGames, pendingWrites, cfg>>

\* Game.code is not unique: a second row takes the place of the first
CreateGameRowUnconstrained(t) ==
    /\ t.pc = "c_createGame"
    /\ dbGames' = Put(dbGames, t.code,
            [gridSize |-> t.gridSize, status |-> "ACTIVE",
             winnerId |-> Null, players |-> <<t.userId>>])
    /\ tasks' = Resumed(t, [t EXCEPT !.pc = "c_init"])
    /\ emitted' = <<>>
    /\ moved' = NoMove
    /\ UNCHANGED <<activeGames, dbUsers, pendingWrites, cfg>>

\* prisma.game.create with the creator's GamePlayer row; Game.code is @unique
CreateGameRow(t) ==
    /\ t.pc = "c_createGame"
    /\ IF t.code \in DOMAIN dbGames
       THEN /\ Fail(t, "Failed to create game")
            /\ UNCHANGED dbGames
       ELSE /\ dbGames' = Put(dbGames, t.code,
                    [gridSize |-> t.gridSize, status |-> "ACTIVE",
                     winnerId |-> Null, players |-> <<t.userId>>])
            /\ tasks' = Resumed(t, [t EXCEPT !.pc = "c_init"])
            /\ emitted' = <<>>
    /\ moved' = NoMove
    /\ UNCHANGED <<activeGames, dbUsers, pendingWrites, cfg>>

\* after the await: the state is built from the created row and registered
CreateGameInit(t) ==
    /\ t.pc = "c_init"
    /\ LET gameState == initializeGameState(t.gridSize, <<Player(t.userId)>>)
       IN  /\ activeGames' = Put(activeGames, t.code, gameState)
           /\ emitted' = <<[type |-> "gameCreated", to |-> "socket",
                            code |-> t.code, gameState |-> gameState]>>
    /\ tasks' = Finished(t)
    /\ moved' = NoMove
    /\ UNCHANGED <<dbUsers, dbGames, pendingWrites, cfg>>

\* ---------------------------------------------------------------- joinGame
\* the handler starts and prisma.game.findUnique (with players) answers
JoinGame(code, userId) ==
    /\ BagCardinality(tasks) < cfg.handlers
    /\ tasks' = Started(
            IF code \in DOMAIN dbGames
            THEN [NewTask EXCEPT !.pc = "j_found", !.userId = userId, !.code = code,
                                 !.gridSize = dbGames[code].gridSize,
                                 !.status = dbGames[code].status,
                                 !.players = dbGames[code].players]
            ELSE [NewTask EXCEPT !.pc = "j_missing", !.userId = userId, !.code = code])
    /\ emitted' = <<>>
    /\ moved' = NoMove
    /\ UNCHANGED <<activeGames, dbUsers, dbGames, pendingWrites, cfg>>

\* what joinGame sends at its end: gameJoined to the socket, playerJoined to the room
JoinEvents(code, userId, registry, gridSize, players) ==
    <<[type |-> "gameJoined", to |-> "socket", code |-> code, player |-> userId,
       gameState |-> IF code \in DOMAIN registry THEN registry[code]
                     ELSE initializeGameState(gridSize, Rows(players))],
      [type |-> "playerJoined", to |-> "room", code |-> code, player |-> userId,
       gameState |-> IF code \in DOMAIN registry THEN <<registry[code]>> ELSE <<>>]>>

\* the lookup finds nobody
ExistingPlayerMissed(players, userId) == FALSE

\* game.players.find(p => p.userId === userId), on the rows read
ExistingPlayer(players, userId) == Contains(players, userId)

\* after the first await: the checks on the row read, and for a new player
\* prisma.user.findUnique
JoinGameCheck(t) ==
    /\ t.pc \in {"j_found", "j_missing"}
    /\ IF t.pc = "j_missing"
       THEN Fail(t, "Game not found")
       ELSE IF t.status # "ACTIVE"
       THEN Fail(t, "Game is not active")
       ELSE IF ExistingPlayer(t.players, t.userId)
       THEN /\ tasks' = Finished(t)
            /\ emitted' = JoinEvents(t.code, t.userId, activeGames,
                                     t.gridSize, t.players)
       ELSE /\ tasks' = Resumed(t, [t EXCEPT !.pc =
                    IF t.userId \in dbUsers THEN "j_createPlayer" ELSE "j_createUser"])
            /\ emitted' = <<>>
    /\ moved' = NoMove
    /\ UNCHANGED <<activeGames, dbUsers, dbGames, pendingWrites, cfg>>

\* prisma.user.create
JoinGameUser(t) ==
    /\ t.pc = "j_createUser"
    /\ IF t.userId \in dbUsers
       THEN /\ Fail(t, "Failed to join game")
            /\ UNCHANGED dbUsers
       ELSE /\ dbUsers' = dbUsers \cup {t.userId}
            /\ tasks' = Resumed(t, [t EXCEPT !.pc = "j_createPlayer"])
            /\ emitted' = <<>>
    /\ moved' = NoMove
    /\ UNCHANGED <<activeGames, dbGames, pendingWrites, cfg>>

\* (gameId, userId) is not unique: a second row for the user is created
JoinGamePlayerUnconstrained(t) ==
    /\ t.pc = "j_createPlayer"
    /\ dbGames' = [dbGames EXCEPT ![t.code].players = Append(@, t.userId)]
    /\ tasks' = Resumed(t, [t EXCEPT !.pc = "j_push"])
    /\ emitted' = <<>>
    /\ moved' = NoMove
    /\ UNCHANGED <<activeGames, dbUsers, pendingWrites, cfg>>

\* prisma.gamePlayer.create; (gameId, userId) is @@unique
JoinGamePlayer(t) ==
    /\ t.pc = "j_createPlayer"
    /\ IF Contains(dbGames[t.code].players, t.userId)
       THEN /\ Fail(t, "Failed to join game")
            /\ UNCHANGED dbGames
       ELSE /\ dbGames' = [dbGames EXCEPT ![t.code].players = Append(@, t.userId)]
            /\ tasks' = Resumed(t, [t EXCEPT !.pc = "j_push"])
            /\ emitted' = <<>>
    /\ moved' = NoMove
    /\ UNCHANGED <<activeGames, dbUsers, pendingWrites, cfg>>

\* the room is rebuilt around the longer player list
PushPlayerRebuilding(registry, code, userId) ==
    IF code \in DOMAIN registry
    THEN [registry EXCEPT ![code] =
            initializeGameState(@.gridSize, Append(@.players, Player(userId)))]
    ELSE registry

\* the player is put in front of the others
PushPlayerInFront(registry, code, userId) ==
    IF code \in DOMAIN registry
    THEN [registry EXCEPT ![code].players = <<Player(userId)>> \o @]
    ELSE registry

\* activeGames[code].players.push(player)
PushPlayer(registry, code, userId) ==
    IF code \in DOMAIN registry
    THEN [registry EXCEPT ![code].players = Append(@, Player(userId))]
    ELSE registry

\* after the last await: the push into the live state and the two emits
JoinGamePush(t) ==
    /\ t.pc = "j_push"
    /\ activeGames' = PushPlayer(activeGames, t.code, t.userId)
    /\ emitted' = JoinEvents(t.code, t.userId, activeGames',
                             t.gridSize, t.players)
    /\ tasks' = Finished(t)
    /\ moved' = NoMove
    /\ UNCHANGED <<dbUsers, dbGames, pendingWrites, cfg>>

\* a database operation of an async handler rejects: its catch block runs
DbError(t) ==
    /\ t.pc \in {"c_createUser", "c_findCode", "c_createGame",
                        "j_createUser", "j_createPlayer"}
    /\ Fail(t, IF t.pc \in {"c_createUser", "c_findCode", "c_createGame"}
               THEN "Failed to create game" ELSE "Failed to join game")
    /\ moved' = NoMove
    /\ UNCHANGED <<activeGames, dbUsers, dbGames, pendingWrites, cfg>>

\* ---------------------------------------------------------------- makeMove
EndEvents(code, gameState) ==
    <<[type |-> "gameEnded", to |-> "room", code |-> code,
       winnerId |-> Winner(gameState.scores).winnerId,
       isTie |-> Winner(gameState.scores).isTie,
       finalScores |-> gameState.scores]>>

\* gameStateUpdated, then nextPlayer; where players[currentPlayerIndex] is
\* undefined, reading its userId throws after the first emit
UpdateEvents(code, gameState) ==
    <<[type |-> "gameStateUpdated", to |-> "room", code |-> code, gameState |-> gameState]>>
    \o (IF gameState.currentPlayerIndex + 1 \in DOMAIN gameState.players
        THEN <<[type |-> "nextPlayer", to |-> "room", code |-> code,
                playerId |-> gameState.players[gameState.currentPlayerIndex + 1].userId]>>
        ELSE <<>>)

\* processMove works on the registered object: whatever it did to the state is
\* in the registry when it returns, also when the move is refused
MakeMove(code, line, userId) ==
    /\ IF ~Live(code)
       THEN /\ emitted' = <<ErrorEvent("Game not found")>>
            /\ moved' = NoMove
            /\ UNCHANGED <<activeGames, pendingWrites>>
       ELSE \E result \in {processMove(activeGames[code], line, userId)} :
                /\ moved' = <<[code |-> code, result |-> result]>>
                /\ IF ~result.valid
                   THEN /\ activeGames' = [activeGames EXCEPT ![code] = result.gameState]
                        /\ emitted' = <<ToSocket("invalidMove", result.message)>>
                        /\ UNCHANGED pendingWrites
                   ELSE IF checkGameEnd(result.gameState)
                   THEN /\ pendingWrites' = pendingWrites \cup
                                {[code |-> code,
                                  winnerId |-> Winner(result.gameState.scores).winnerId]}
                        /\ emitted' = EndEvents(code, result.gameState)
                        /\ activeGames' = Delete(activeGames, code)
                   ELSE /\ activeGames' = [activeGames EXCEPT ![code] = result.gameState]
                        /\ emitted' = UpdateEvents(code, result.gameState)
                        /\ UNCHANGED pendingWrites
    /\ UNCHANGED <<dbUsers, dbGames, tasks, cfg>>

\* the fire-and-forget prisma.game.update resolves
CompletionWritten(w) ==
    /\ w \in pendingWrites
    /\ pendingWrites' = pendingWrites \ {w}
    /\ dbGames' = [dbGames EXCEPT ![w.code].status = "COMPLETED",
                                  ![w.code].winnerId = w.winnerId]
    /\ emitted' = <<>>
    /\ moved' = NoMove
    /\ UNCHANGED <<activeGames, dbUsers, tasks, cfg>>

\* ... or rejects, and .catch(console.error) swallows it
CompletionLost(w) ==
    /\ w \in pendingWrites
    /\ pendingWrites' = pendingWrites \ {w}
    /\ emitted' = <<>>
    /\ moved' = NoMove
    /\ UNCHANGED <<activeGames, dbUsers, dbGames, tasks, cfg>>

\* ---------------------------------------------------------------- clients
\* What the clients send.  A scenario fixes the codes generateGameCode may draw,
\* the grid sizes and user ids of the requests (user ids are opaque, so one
\* creator stands for any), how many async handlers run at
\* once, and the order in which the clients try the edges: a makeMove carries an
\* id that is no edge at all, one of the first `window` undrawn edges of `script`
\* or one of the last `window` drawn ones.
H(row, col) == LineId(row, col, row, col + 1)
V(row, col) == LineId(row, col, row + 1, col)

NoEdge == {LineId(0, 0, 1, 1), LineId(0, 0, 0, 9)}

Script2 == <<H(0, 0), V(0, 0), V(0, 1), H(1, 0)>>
Script3 == <<H(0, 0), H(1, 0), V(0, 0), H(0, 1), H(1, 1), V(0, 2),
             H(2, 0), V(1, 0), V(0, 1), H(2, 1), V(1, 1), V(1, 2)>>

\* two users on the smallest board, with handlers waiting at their awaits
Duel == [codes |-> {"AAAAAA"}, gridSizes |-> {2}, creators |-> {"u1"},
         users |-> {"u1", "u2"}, handlers |-> MaxTasks,
         script |-> Script2, window |-> Window]
\* three users on the smallest board, the edges in any order
Trio == [codes |-> {"AAAAAA"}, gridSizes |-> {2}, creators |-> {"u1"},
         users |-> {"u1", "u2", "u3"}, handlers |-> 1,
         script |-> Script2, window |-> Len(Script2)]
\* two users on the board of four boxes
Board == [codes |-> {"AAAAAA"}, gridSizes |-> {3}, creators |-> {"u1"},
          users |-> {"u1", "u2"}, handlers |-> 1,
          script |-> Script3, window |-> Window]

\* two creations at once over two codes, one of them of a board without edges
Lobby == [codes |-> {"AAAAAA", "BBBBBB"}, gridSizes |-> {1, 2}, creators |-> {"u1"},
          users |-> {"u1"}, handlers |-> MaxTasks,
          script |-> <<H(0, 0)>>, window |-> Window]

\* one creator on larger boards, where only creation is looked at
Sizes == [codes |-> {"AAAAAA"}, gridSizes |-> {4, 5}, creators |-> {"u1"},
          users |-> {"u1"}, handlers |-> 1,
          script |-> <<H(0, 0)>>, window |-> Window]

Scenarios == {Duel, Trio, Board, Lobby, Sizes}

IsDrawn(code, line) == Live(code) /\ LineDrawn(activeGames[code], line)

\* the positions of the script the clients may try next in a room
Open(code) ==
    {i \in 1..Len(cfg.script) :
        /\ ~IsDrawn(code, cfg.script[i])
        /\ Cardinality({j \in 1..(i - 1) : ~IsDrawn(code, cfg.script[j])}) < cfg.window}

\* ... and the positions they may try again
Closed(code) ==
    {i \in 1..Len(cfg.script) :
        /\ IsDrawn(code, cfg.script[i])
        /\ Cardinality({j \in (i + 1)..Len(cfg.script) : IsDrawn(code, cfg.script[j])})
                < cfg.window}

LineInputs(code) ==
    {cfg.script[i] : i \in Open(code) \cup Closed(code)} \cup NoEdge

\* ---------------------------------------------------------------- specifications
InitWith(c) ==
    /\ activeGames = <<>>
    /\ dbUsers = {}
    /\ dbGames = <<>>
    /\ pendingWrites = {}
    /\ tasks = EmptyBag
    /\ emitted = <<>>
    /\ moved = NoMove
    /\ cfg = c

Init == \E c \in Scenarios : InitWith(c)

Next ==
    \/ \E g \in cfg.gridSizes, u \in cfg.creators : CreateGame(g, u)
    \/ \E t \in InFlight : CreateGameUser(t)
    \/ \E t \in InFlight, c \in cfg.codes : CreateGameCode(t, c)
    \/ \E t \in InFlight : CreateGameRow(t)
    \/ \E t \in InFlight : CreateGameInit(t)
    \/ \E c \in cfg.codes, u \in cfg.users : JoinGame(c, u)
    \/ \E t \in InFlight : JoinGameCheck(t)
    \/ \E t \in InFlight : JoinGameUser(t)
    \/ \E t \in InFlight : JoinGamePlayer(t)
    \/ \E t \in InFlight : JoinGamePush(t)
    \/ \E t \in InFlight : DbError(t)
    \/ \E c \in cfg.codes, u \in cfg.users : \E l \in LineInputs(c) : MakeMove(c, l, u)
    \/ \E w \in pendingWrites : CompletionWritten(w)
    \/ \E w \in pendingWrites : CompletionLost(w)

Spec == Init /\ [][Next]_vars

\* The player whose turn it is keeps submitting an edge that is not drawn.
TurnMove(code) ==
    /\ Live(code)
    /\ \E l \in LineInputs(code) :
            /\ l \in DOMAIN activeGames[code].lines
            /\ ~activeGames[code].lines[l].drawn
            /\ MakeMove(code, l,
                   activeGames[code].players[activeGames[code].currentPlayerIndex + 1].userId)

Codes == {"AAAAAA", "BBBBBB"}

\* the scenarios whose clients go through every edge of the board
Playing == {Duel, Trio, Board}

LiveSpec ==
    /\ \E c \in Playing : InitWith(c)
    /\ [][Next]_vars
    /\ \A c \in Codes : WF_vars(TurnMove(c))

\* ---------------------------------------------------------------- properties
OwnedBoxes(gameState) ==
    Cardinality({b \in DOMAIN gameState.boxes : gameState.boxes[b].owner # Null})
OwnedBy(gameState, userId) ==
    Cardinality({b \in DOMAIN gameState.boxes : gameState.boxes[b].owner = userId})
DrawnLines(gameState) == {l \in DOMAIN gameState.lines : gameState.lines[l].drawn}
PlayerSet(gameState) == Range(UserIds(gameState.players))

RECURSIVE ScoreSum(_)
\* the JS sum of the values of the scores object
ScoreSum(scores) ==
    IF scores = <<>> THEN Num(0)
    ELSE LET rest == ScoreSum(Tail(scores))
         IN  IF rest.nan \/ Head(scores).score.nan THEN NaN
             ELSE Num(rest.n + Head(scores).score.n)

\* the game states in view: the registered ones and the one the last move left
RoomStates ==
    {activeGames[c] : c \in DOMAIN activeGames}
        \cup {moved[i].result.gameState : i \in 1..Len(moved)}

Accepted == moved # NoMove /\ moved[1].result.valid
Refused == moved # NoMove /\ ~moved[1].result.valid
Ended(i) == emitted[i].type = "gameEnded"

\* C1: in every state of a room the scores sum to the number of owned boxes,
\* also when a player who joined after creation completes a box.
C1_ScoresSumToOwnedBoxes ==
    \A gameState \in RoomStates :
        ScoreSum(gameState.scores) = Num(OwnedBoxes(gameState))

\* C2: when the last edge is drawn, the winner sent in gameEnded and handed to
\* persistence is the player who owns strictly more boxes than every other
\* player, creator or joiner, and isTie is false.
C2_WinnerOwnsMostBoxes ==
    \A i \in 1..Len(emitted) :
        Ended(i) =>
            LET final == moved[1].result.gameState
            IN  \A p \in PlayerSet(final) :
                    (\A q \in PlayerSet(final) \ {p} : OwnedBy(final, p) > OwnedBy(final, q))
                        => /\ emitted[i].winnerId = p
                           /\ ~emitted[i].isTie
                           /\ [code |-> emitted[i].code, winnerId |-> p] \in pendingWrites

\* C3: when the game ends and two or more players share the largest number of
\* owned boxes, gameEnded carries isTie = true and winnerId = null.
C3_SharedMaximumIsTie ==
    \A i \in 1..Len(emitted) :
        Ended(i) =>
            LET final == moved[1].result.gameState
            IN  (\E p, q \in PlayerSet(final) :
                    /\ p # q
                    /\ OwnedBy(final, p) = OwnedBy(final, q)
                    /\ \A r \in PlayerSet(final) : OwnedBy(final, r) <= OwnedBy(final, p))
                    => emitted[i].isTie /\ emitted[i].winnerId = Null

\* C4: turn law.  An accepted move that completes no box passes the turn to
\* (currentPlayerIndex + 1) mod players.length; one that completes a box leaves
\* currentPlayerIndex where it was, and the same player moves next.
C4_TurnLaw ==
    [][(moved' # NoMove /\ moved'[1].result.valid) =>
        LET code == moved'[1].code
            before == activeGames[code]
            after == moved'[1].result.gameState
        IN  /\ IF OwnedBoxes(after) = OwnedBoxes(before)
               THEN after.currentPlayerIndex =
                        (before.currentPlayerIndex + 1) % Len(before.players)
               ELSE after.currentPlayerIndex = before.currentPlayerIndex
            /\ moved'[1].result.boxesCompleted = OwnedBoxes(after) - OwnedBoxes(before)
            /\ after.players = before.players
            /\ code \in DOMAIN activeGames' => activeGames'[code] = after
      ]_vars

\* a player other than the only one has completed a box and moves again
C4_KeptTheTurn ==
    /\ Accepted
    /\ moved[1].result.boxesCompleted >= 1
    /\ Live(moved[1].code)
    /\ activeGames[moved[1].code].currentPlayerIndex > 0

GameOver(code) ==
    /\ code \in DOMAIN dbGames
    /\ ~Live(code)
    /\ \A t \in InFlight : ~(t.pc = "c_init" /\ t.code = code)

\* C6: terminal law.  Once every edge of a room is drawn the game's status
\* is COMPLETED and no makeMove for the code is accepted any more.
C6_TerminalLaw ==
    \A c \in DOMAIN dbGames :
        GameOver(c) =>
            /\ dbGames[c].status = "COMPLETED"
            /\ \A u \in cfg.users : \A l \in LineInputs(c) :
                    ~Live(c) \/ ~processMove(activeGames[c], l, u).valid

\* the game state a step leaves for a room that was registered before it
Left(code) ==
    IF moved' # NoMove /\ moved'[1].code = code THEN moved'[1].result.gameState
    ELSE IF code \in DOMAIN activeGames' THEN activeGames'[code]
    ELSE activeGames[code]
AcceptedFor(code) == moved' # NoMove /\ moved'[1].code = code /\ moved'[1].result.valid

\* C7: moves of a room are applied one at a time.  Every accepted makeMove
\* works on the state the previous one left: the drawn edges only grow, by
\* exactly one per accepted move and by none in any other step, whatever
\* createGame and joinGame handlers are suspended in between; a room leaves
\* the registry only with its last edge.
C7_MovesSerialized ==
    [][\A c \in DOMAIN activeGames :
        /\ DrawnLines(activeGames[c]) \subseteq DrawnLines(Left(c))
        /\ Cardinality(DrawnLines(Left(c))) =
                Cardinality(DrawnLines(activeGames[c])) + (IF AcceptedFor(c) THEN 1 ELSE 0)
        /\ AcceptedFor(c) /\ c \in DOMAIN activeGames' => activeGames'[c] = Left(c)
        /\ c \notin DOMAIN activeGames' => AcceptedFor(c) /\ checkGameEnd(Left(c))
      ]_vars

\* a second or later move of a room was accepted while a joinGame for the
\* room was suspended at an await
C7_MovedBetweenAwaits ==
    /\ Accepted
    /\ Cardinality(DrawnLines(moved[1].result.gameState)) >= 2
    /\ \E t \in InFlight :
            t.code = moved[1].code /\ t.pc \in {"j_createUser", "j_createPlayer", "j_push"}

\* top, right, bottom and left edge of a box
BoundingEdges(boxId) ==
    {H(boxId[1], boxId[2]), V(boxId[1], boxId[2] + 1),
     H(boxId[1] + 1, boxId[2]), V(boxId[1], boxId[2])}

\* C8: a box has an owner only when its four bounding edges are drawn; the
\* owner, once set, never changes; and it is set by an accepted move that
\* draws one of the four edges, to the player who made that move.
C8_BoxOwnership ==
    /\ [](\A gameState \in RoomStates : \A b \in DOMAIN gameState.boxes :
            gameState.boxes[b].owner # Null
                => BoundingEdges(b) \subseteq DrawnLines(gameState))
    /\ [][\A c \in DOMAIN activeGames : \A b \in DOMAIN activeGames[c].boxes :
            LET before == activeGames[c]
                after == Left(c)
            IN  /\ before.boxes[b].owner # Null
                    => after.boxes[b].owner = before.boxes[b].owner
                /\ (before.boxes[b].owner = Null /\ after.boxes[b].owner # Null)
                    => /\ AcceptedFor(c)
                       /\ after.boxes[b].owner =
                            before.players[before.currentPlayerIndex + 1].userId
                       /\ \E l \in BoundingEdges(b) :
                            /\ l \notin DrawnLines(before)
                            /\ l \in DrawnLines(after)
                            /\ after.lines[l].playerId = after.boxes[b].owner
         ]_vars

\* a room where one box is owned and another is still open
C8_OwnedAndOpenBoxes ==
    \E c \in DOMAIN activeGames :
        /\ \E b \in DOMAIN activeGames[c].boxes : activeGames[c].boxes[b].owner # Null
        /\ \E b \in DOMAIN activeGames[c].boxes : activeGames[c].boxes[b].owner = Null

C10_JoinAppendsWithScore ==
    [][\A t \in DOMAIN tasks :
        (/\ t.pc = "j_push"
         /\ CopiesIn(t, tasks') < CopiesIn(t, tasks)
         /\ Live(t.code))
            => LET before == activeGames[t.code]
                   after == activeGames'[t.code]
               IN  /\ after.players = Append(before.players, Player(t.userId))
                   /\ ScoreIndex(after.scores, t.userId) # 0
                   /\ after.scores[ScoreIndex(after.scores, t.userId)].score = Num(0)
      ]_vars

\* the state-update events of the last step: gameStateUpdated sent to the room
StateUpdates ==
    {i \in 1..Len(emitted) : emitted[i].type = "gameStateUpdated" /\ emitted[i].to = "room"}

\* C11: the state-update events of a room match its accepted moves: every
\* accepted makeMove, the one that draws the last edge included, emits exactly
\* one state update to the room, carrying the state the move left; a refused
\* makeMove emits none, only a response to the requesting socket.
C11_UpdatePerAcceptedMove ==
    /\ Accepted =>
            /\ Cardinality(StateUpdates) = 1
            /\ \A i \in StateUpdates :
                    /\ emitted[i].code = moved[1].code
                    /\ emitted[i].gameState = moved[1].result.gameState
    /\ ~Accepted => StateUpdates = {}
    /\ Refused => \A i \in 1..Len(emitted) : emitted[i].to = "socket"

\* a handler called in this step, and one that returned in it
Called(t) == CopiesIn(t, tasks') > CopiesIn(t, tasks)
Returned(t) == CopiesIn(t, tasks') < CopiesIn(t, tasks)

\* C12: joinGame fails when the game is not active.  Once the last edge of a
\* game is drawn, a joinGame called for its code does not find the game
\* ACTIVE, also while the completion write is pending or after it failed; and
\* a joinGame that does not find the game ACTIVE is answered with an error
\* only, creating no player row and touching no room.
C12_NoJoinAfterCompletion ==
    [][/\ \A t \in DOMAIN tasks' :
            (Called(t) /\ t.pc = "j_found" /\ GameOver(t.code))
                => t.status # "ACTIVE"
       /\ \A t \in DOMAIN tasks :
            (Returned(t) /\ t.pc = "j_found" /\ t.status # "ACTIVE")
                => /\ emitted' = <<ErrorEvent("Game is not active")>>
                   /\ dbGames' = dbGames
                   /\ dbUsers' = dbUsers
                   /\ activeGames' = activeGames
      ]_vars

\* C13: room creation is collision-safe.  createGame leaves its code loop
\* only with a code of no live room; every live room has its Game row; and the
\* step that registers a new GameState registers a fresh one under a code that
\* was not live and leaves every other room as it was, also when two createGame
\* handlers that drew the same code interleave at their awaits.
C13_CreationCollisionSafe ==
    /\ [](\A c \in DOMAIN activeGames : c \in DOMAIN dbGames)
    /\ [][/\ \A t \in DOMAIN tasks' :
               (Called(t) /\ t.pc = "c_createGame")
                   => ~Live(t.code) /\ t.code \notin DOMAIN dbGames
          /\ \A c \in DOMAIN activeGames :
               c \in DOMAIN activeGames' /\ activeGames'[c] # activeGames[c]
                   => \A t \in DOMAIN tasks : ~(Returned(t) /\ t.pc = "c_init")
          /\ \A t \in DOMAIN tasks :
               (Returned(t) /\ t.pc = "c_init")
                   => /\ ~Live(t.code)
                      /\ activeGames' = Put(activeGames, t.code,
                               initializeGameState(t.gridSize, <<Player(t.userId)>>))
         ]_vars

\* a createGame is about to create the row of a code it drew before another
\* createGame registered a room under it, where an edge is drawn by now
C13_SameCodeDrawnTwice ==
    \E t \in InFlight :
        /\ t.pc = "c_createGame"
        /\ Live(t.code)
        /\ DrawnLines(activeGames[t.code]) # {}

\* C14: a completed game stays resolvable for a grace window.  In the state
\* the completing move leaves, a lookup of the code still finds the room, with
\* every edge drawn; the removal is a later step of its own.
C14_KeptForGraceWindow ==
    \A i \in 1..Len(emitted) :
        Ended(i) =>
            /\ Live(emitted[i].code)
            /\ checkGameEnd(activeGames[emitted[i].code])

\* C15: createGame with gridSize <= 1 is rejected.  No Game row, no
\* registered room and no gameCreated event ever carries a gridSize below 2.
C15_SmallGridRejected ==
    /\ \A c \in DOMAIN dbGames : dbGames[c].gridSize >= 2
    /\ \A c \in DOMAIN activeGames : activeGames[c].gridSize >= 2
    /\ \A i \in 1..Len(emitted) :
            emitted[i].type = "gameCreated" => emitted[i].gameState.gridSize >= 2

\* C16: in every reachable state currentPlayerIndex of a room is an integer
\* in [0, players.length), whatever accepted moves, refused moves and joins
\* came before.
C16_TurnIndexInRange ==
    \A gameState \in RoomStates :
        /\ gameState.currentPlayerIndex \in Int
        /\ 0 <= gameState.currentPlayerIndex
        /\ gameState.currentPlayerIndex < Len(gameState.players)

\* the last of two or more players has passed the turn back to the first
C16_TurnWrapped ==
    /\ Accepted
    /\ moved[1].result.boxesCompleted = 0
    /\ Live(moved[1].code)
    /\ Len(activeGames[moved[1].code].players) >= 2
    /\ activeGames[moved[1].code].currentPlayerIndex = 0

\* the game states createGame has just built and sent
Created ==
    {emitted[i].gameState : i \in {j \in 1..Len(emitted) : emitted[j].type = "gameCreated"}}

\* C17: for every gridSize >= 2 the GameState built at creation has exactly
\* 2 * gridSize * (gridSize - 1) edges, all undrawn and without a player,
\* exactly (gridSize - 1)^2 boxes, all without owner, and currentPlayerIndex 0.
C17_InitialBoard ==
    \A gameState \in Created :
        gameState.gridSize >= 2 =>
            /\ Cardinality(DOMAIN gameState.lines) =
                    2 * gameState.gridSize * (gameState.gridSize - 1)
            /\ \A l \in DOMAIN gameState.lines :
                    ~gameState.lines[l].drawn /\ gameState.lines[l].playerId = Null
            /\ Cardinality(DOMAIN gameState.boxes) =
                    (gameState.gridSize - 1) * (gameState.gridSize - 1)
            /\ \A b \in DOMAIN gameState.boxes : gameState.boxes[b].owner = Null
            /\ gameState.currentPlayerIndex = 0

\* a board of five by five dots has been created
C17_CreatedFiveByFive ==
    \E gameState \in Created :
        gameState.gridSize = 5 /\ Cardinality(DOMAIN gameState.lines) = 40

\* C18: no user appears twice in the players of a room, also when two
\* joinGame handlers for the same user and code have both read the game's
\* players before either has written its row.
C18_NoDuplicatePlayer ==
    \A gameState \in RoomStates :
        \A i, j \in 1..Len(gameState.players) :
            gameState.players[i].userId = gameState.players[j].userId => i = j

\* a joinGame that read the players without its user is about to create the
\* user's row, and another joinGame has pushed the user into the room since
C18_SecondJoinRaced ==
    \E t \in InFlight :
        /\ t.pc = "j_createPlayer"
        /\ ~Contains(t.players, t.userId)
        /\ Live(t.code)
        /\ t.userId \in PlayerSet(activeGames[t.code])

\* C19: a joinGame changes neither whose turn it is nor the board.  In the
\* step in which a joinGame returns, of a new or of a returning player, every
\* room keeps its currentPlayerIndex and the player at that index, its lines,
\* its boxes and its scores, and the players it had stay where they were.
C19_JoinKeepsTurnAndBoard ==
    [][\A t \in DOMAIN tasks :
        (Returned(t) /\ t.pc \in {"j_found", "j_push"})
            => /\ DOMAIN activeGames' = DOMAIN activeGames
               /\ \A c \in DOMAIN activeGames :
                    LET before == activeGames[c]
                        after == activeGames'[c]
                    IN  /\ after.currentPlayerIndex = before.currentPlayerIndex
                        /\ after.players[after.currentPlayerIndex + 1] =
                                before.players[before.currentPlayerIndex + 1]
                        /\ after.lines = before.lines
                        /\ after.boxes = before.boxes
                        /\ after.scores = before.scores
                        /\ Len(after.players) >= Len(before.players)
                        /\ SubSeq(after.players, 1, Len(before.players)) = before.players
      ]_vars

\* a player has joined at the end of a room of three where edges are drawn and
\* the turn is not the creator's
C19_JoinedMidGame ==
    /\ Len(emitted) = 2
    /\ emitted[1].type = "gameJoined"
    /\ Live(emitted[1].code)
    /\ LET gameState == activeGames[emitted[1].code]
       IN  /\ Len(gameState.players) = 3
           /\ gameState.players[3].userId = emitted[1].player
           /\ gameState.currentPlayerIndex = 1
           /\ DrawnLines(gameState) # {}

\* C20: every accepted move draws exactly one edge that was not drawn, for
\* the player who moved; a drawn edge stays drawn, with its player; so a room
\* never holds more than 2 * gridSize * (gridSize - 1) drawn edges.  The game
\* ends, and the room leaves the registry, on exactly the accepted move that
\* leaves every edge drawn.  And when the player whose turn it is keeps
\* submitting an undrawn edge, a room with an undrawn edge eventually leaves
\* the registry.
C20_EveryGameEnds ==
    /\ [](/\ \A gameState \in RoomStates :
                Cardinality(DrawnLines(gameState))
                    <= 2 * gameState.gridSize * (gameState.gridSize - 1)
          /\ (\E i \in 1..Len(emitted) : Ended(i))
                <=> (Accepted /\ \A l \in DOMAIN moved[1].result.gameState.lines :
                                    moved[1].result.gameState.lines[l].drawn))
    /\ [][\A c \in DOMAIN activeGames :
            LET before == activeGames[c]
                after == Left(c)
                mover == before.players[before.currentPlayerIndex + 1].userId
            IN  /\ \A l \in DrawnLines(before) : after.lines[l] = before.lines[l]
                /\ AcceptedFor(c) =>
                        \E l \in DOMAIN before.lines :
                            /\ ~before.lines[l].drawn
                            /\ DrawnLines(after) = DrawnLines(before) \cup {l}
                            /\ after.lines[l] = [drawn |-> TRUE, playerId |-> mover]
                /\ ~AcceptedFor(c) => DrawnLines(after) = DrawnLines(before)
                /\ c \notin DOMAIN activeGames'
                        <=> (AcceptedFor(c) /\ DrawnLines(after) = DOMAIN after.lines)
         ]_vars
    /\ \A c \in Codes :
            (Live(c) /\ DrawnLines(activeGames[c]) # DOMAIN activeGames[c].lines)
                ~> ~Live(c)

\* the twelfth accepted move of a board of 12 edges has ended the game
C20_LastOfTwelveEdges ==
    /\ Accepted
    /\ Cardinality(DrawnLines(moved[1].result.gameState)) = 12
    /\ \E i \in 1..Len(emitted) : Ended(i)
    /\ ~Live(moved[1].code)

====
